---- MODULE Spec2Model ----
(***************************************************************************)
(* The swap lifecycle engine ("Nursery") of src/lib/swap/LiquidNursery.ts  *)
(* (class RskNursery) over the Swap and ReverseSwap tables, the latter     *)
(* through src/lib/db/ReverseSwapRepository.ts.                            *)
(*                                                                         *)
(* Every `await` of a handler that is followed by a write is a separate    *)
(* step, so that other handlers interleave exactly where the event loop    *)
(* lets them.  A handler whose continuation only emits (claim, the two     *)
(* expiry scans) is one step: query and emit, the emitted entity being the *)
(* row as the query returned it.                                           *)
(***************************************************************************)
EXTENDS Integers, Sequences, FiniteSets, TLC

\* ---------------------------------------------------------------- bounds
NumSwaps == 2
NumReverseSwaps == 2
MaxInFlight == 2
MaxHeight == 3

SwapIds == 1..NumSwaps
ReverseSwapIds == 1..NumReverseSwaps
Slots == 1..MaxInFlight
Heights == 1..MaxHeight

\* ------------------------------------------------- SwapUpdateEvent values
SwapCreated == "swap.created"
InvoiceSet == "invoice.set"
TransactionMempool == "transaction.mempool"
TransactionConfirmed == "transaction.confirmed"
InvoicePaid == "invoice.paid"
InvoiceFailedToPay == "invoice.failedToPay"
TransactionClaimed == "transaction.claimed"
SwapExpired == "swap.expired"
TransactionFailed == "transaction.failed"
TransactionRefunded == "transaction.refunded"
InvoiceSettled == "invoice.settled"

\* ------------------------------------------------------- wallets, chain
\* walletManager.wallets: symbol -> wallet type; "LTC" has no wallet.
Symbols == {"RBTC", "XUSD", "BTC", "LTC"}

walletType(symbol) ==
  CASE symbol = "RBTC" -> "Rbtc"
    [] symbol = "XUSD" -> "ERC20"
    [] symbol = "BTC" -> "BitcoinLike"
    [] OTHER -> "undefined"

\* Addresses and token contracts are opaque values.
rskManagerAddress == "0xService"
Addresses == {rskManagerAddress, "0xOther"}
getTokenAddress == "0xXUSD"
TokenAddresses == {getTokenAddress, "0xOtherToken"}

\* etherDecimals is 10^10 (satoshi -> wei); TLC's integers are 32 bit wide, so
\* the model keeps the scaling and shrinks the factor.
etherDecimals == 10
\* Token amounts: formatTokenAmount scales display units to token units,
\* normalizeTokenAmount scales back (integer division).
tokenDecimals == 10

formatTokenAmount(amount) == amount * tokenDecimals
normalizeTokenAmount(amount) == amount \div tokenDecimals

\* expectedAmount is fixed at creation; 0 models an unset (falsy) value.  Swaps
\* with an odd id expect 2 (display units), the others expect nothing.
expectedAmountOf(i) == IF i % 2 = 1 THEN 2 ELSE 0
\* Observed amounts (chain units): just below the scaled expectation, and it.
Amounts == {2 * etherDecimals - 1, 2 * etherDecimals}
TxHashes == {1}
\* preimageHash of swap / reverse swap i is i; 0 matches no record.
Hashes == {0} \cup SwapIds \cup ReverseSwapIds

\* timeoutBlockHeight is fixed at creation: record i times out at height i + 1.
timeoutOf(i) == i + 1
Timelocks == {timeoutOf(i) : i \in SwapIds}

VARIABLES
  swaps,          \* Swap table: id -> row
  reverseSwaps,   \* ReverseSwap table: id -> row
  lockups,        \* lockup handlers in flight: slot -> handler frame
  watchers,       \* confirmation watchers: reverse swap id -> frame
  initPc,         \* position of init(): "start", "loop", "done"
  initQueue,      \* init(): reverse swaps still to visit, with their snapshot
  emitted,        \* events emitted by the last step, in order
  last            \* the last step: operation and its inputs

vars == <<swaps, reverseSwaps, lockups, watchers, initPc, initQueue, emitted, last>>


\* ------------------------------------------------------------- events
\* One emitted domain event.  `id`, `status`, `txid` describe the entity the
\* event carries (the instance the handler holds, not the table row); the
\* other fields are the event's own payload: the rejection reason, the
\* transaction hash or preimage (arg), the isEtherSwap flag (native).
Event(name, id, row, reason, arg, native) ==
  [name |-> name, id |-> id, status |-> row.status, txid |-> row.txid,
   reason |-> reason, arg |-> arg, native |-> native]

\* ------------------------------------------------------------ Swap rows
\* txid is lockupTransactionId (0: null).  preimageHash is the id and
\* timeoutBlockHeight is timeoutOf(id); both are immutable.
SwapRow(status, chainCurrency, expectedAmount) ==
  [status |-> status, chainCurrency |-> chainCurrency,
   expectedAmount |-> expectedAmount, txid |-> 0, minerFee |-> 0]

\* getSwap without its status condition.
getSwapAnyStatus(hash) == IF hash \in SwapIds THEN hash ELSE 0

\* getSwap excluding the swaps with a recorded lockup instead of asking for
\* the two statuses before it.
getSwapUnlessLocked(hash) ==
  IF hash \in SwapIds /\ swaps[hash].status # TransactionMempool
  THEN hash ELSE 0

\* swapRepository.getSwap({preimageHash: hash, status: created or invoiceSet}):
\* the id of the matching row, 0 when there is none.
getSwap(hash) ==
  IF hash \in SwapIds /\ swaps[hash].status \in {SwapCreated, InvoiceSet}
  THEN hash ELSE 0

\* swapRepository.setLockupTransaction(swap, transactionHash, amount, true):
\* the instance after the update.
setSwapLockupTransaction(row, transactionHash, amount) ==
  [row EXCEPT !.txid = transactionHash, !.minerFee = amount,
              !.status = TransactionMempool]

\* instance.update writes the changed columns of the row with that id,
\* whatever the row's status is by then, and leaves the other columns.
updateSwapRow(id, inst) ==
  [swaps EXCEPT ![id] = [@ EXCEPT !.txid = inst.txid, !.minerFee = inst.minerFee,
                                  !.status = inst.status]]

\* ------------------------------------------------------ lockup handlers
IdleFrame ==
  [pc |-> "idle", variant |-> "none", txHash |-> 0, claimAddress |-> "none",
   timelock |-> 0, tokenAddress |-> "none", amount |-> 0, id |-> 0,
   inst |-> SwapRow("none", "none", 0)]

\* A new handler takes the lowest free slot.
FreeSlot(s) == lockups[s].pc = "idle" /\ \A t \in Slots : t < s => lockups[t].pc # "idle"

Frame(variant, txHash, claimAddress, timelock, tokenAddress, amount, id) ==
  [pc |-> "found", variant |-> variant, txHash |-> txHash,
   claimAddress |-> claimAddress, timelock |-> timelock,
   tokenAddress |-> tokenAddress, amount |-> amount, id |-> id,
   inst |-> swaps[id]]

\* What `last` records: the operation, its inputs and, for the validation step
\* of a lockup listener, the frame it ran on.
StepOn(op, slot, hash, txHash, height, frame) ==
  [op |-> op, slot |-> slot, hash |-> hash, txHash |-> txHash, height |-> height,
   frame |-> frame]

Step(op, slot, hash, txHash, height) == StepOn(op, slot, hash, txHash, height, IdleFrame)

\* 'eth.lockup' listener up to the await of setLockupTransaction.
EthLockup(s, txHash, hash, claimAddress, timelock, amount) ==
  /\ FreeSlot(s)
  /\ LET id == getSwap(hash) IN
       lockups' =
         IF id = 0 THEN lockups
         ELSE IF swaps[id].chainCurrency # "RBTC" THEN lockups
         ELSE [lockups EXCEPT ![s] =
                 Frame("eth", txHash, claimAddress, timelock, "none", amount, id)]
  /\ emitted' = <<>>
  /\ last' = Step("eth.lockup", s, hash, txHash, 0)
  /\ UNCHANGED <<swaps, reverseSwaps, watchers, initPc, initQueue>>

\* The 'erc20.lockup' listener accepting the wallet of any contract of this
\* chain, the native one included.
Erc20LockupAnyEthereumWallet(s, txHash, hash, claimAddress, timelock, tokenAddress, amount) ==
  /\ FreeSlot(s)
  /\ LET id == getSwap(hash) IN
       lockups' =
         IF id = 0 THEN lockups
         ELSE IF walletType(swaps[id].chainCurrency) \notin {"Rbtc", "ERC20"} THEN lockups
         ELSE [lockups EXCEPT ![s] =
                 Frame("erc20", txHash, claimAddress, timelock, tokenAddress, amount, id)]
  /\ emitted' = <<>>
  /\ last' = Step("erc20.lockup", s, hash, txHash, 0)
  /\ UNCHANGED <<swaps, reverseSwaps, watchers, initPc, initQueue>>

\* 'erc20.lockup' listener up to the await of setLockupTransaction.
Erc20Lockup(s, txHash, hash, claimAddress, timelock, tokenAddress, amount) ==
  /\ FreeSlot(s)
  /\ LET id == getSwap(hash) IN
       lockups' =
         IF id = 0 THEN lockups
         ELSE IF walletType(swaps[id].chainCurrency) # "ERC20" THEN lockups
         ELSE [lockups EXCEPT ![s] =
                 Frame("erc20", txHash, claimAddress, timelock, tokenAddress, amount, id)]
  /\ emitted' = <<>>
  /\ last' = Step("erc20.lockup", s, hash, txHash, 0)
  /\ UNCHANGED <<swaps, reverseSwaps, watchers, initPc, initQueue>>

LockupFailed(f, reason) == <<Event("lockup.failed", f.id, f.inst, reason, 0, FALSE)>>

\* The 'eth.lockup' checks with the expected amount left in display units.
EthLockupEventsUnscaled(f) ==
  IF f.claimAddress # rskManagerAddress
  THEN LockupFailed(f, "INVALID_CLAIM_ADDRESS")
  ELSE IF f.timelock # timeoutOf(f.id)
  THEN LockupFailed(f, "INVALID_TIMELOCK")
  ELSE IF f.inst.expectedAmount # 0 /\ f.inst.expectedAmount > f.amount
  THEN LockupFailed(f, "INSUFFICIENT_AMOUNT")
  ELSE <<Event("eth.lockup", f.id, f.inst, "", f.txHash, FALSE)>>

\* The 'eth.lockup' checks with the amount compared by >= instead of >.
EthLockupEventsStrict(f) ==
  IF f.claimAddress # rskManagerAddress
  THEN LockupFailed(f, "INVALID_CLAIM_ADDRESS")
  ELSE IF f.timelock # timeoutOf(f.id)
  THEN LockupFailed(f, "INVALID_TIMELOCK")
  ELSE IF f.inst.expectedAmount # 0
          /\ f.inst.expectedAmount * etherDecimals >= f.amount
  THEN LockupFailed(f, "INSUFFICIENT_AMOUNT")
  ELSE <<Event("eth.lockup", f.id, f.inst, "", f.txHash, FALSE)>>

\* The 'eth.lockup' checks without the return after each emit.
EthLockupEventsFallThrough(f) ==
  (IF f.claimAddress # rskManagerAddress
   THEN LockupFailed(f, "INVALID_CLAIM_ADDRESS") ELSE <<>>)
  \o (IF f.timelock # timeoutOf(f.id)
      THEN LockupFailed(f, "INVALID_TIMELOCK") ELSE <<>>)
  \o (IF f.inst.expectedAmount # 0
         /\ f.inst.expectedAmount * etherDecimals > f.amount
      THEN LockupFailed(f, "INSUFFICIENT_AMOUNT") ELSE <<>>)
  \o <<Event("eth.lockup", f.id, f.inst, "", f.txHash, FALSE)>>

\* The checks of the 'eth.lockup' listener after the update, each returning
\* after its emit.
EthLockupEvents(f) ==
  IF f.claimAddress # rskManagerAddress
  THEN LockupFailed(f, "INVALID_CLAIM_ADDRESS")
  ELSE IF f.timelock # timeoutOf(f.id)
  THEN LockupFailed(f, "INVALID_TIMELOCK")
  ELSE IF f.inst.expectedAmount # 0
          /\ f.inst.expectedAmount * etherDecimals > f.amount
  THEN LockupFailed(f, "INSUFFICIENT_AMOUNT")
  ELSE <<Event("eth.lockup", f.id, f.inst, "", f.txHash, FALSE)>>

\* The 'erc20.lockup' checks with the timelock checked before the token.
Erc20LockupEventsTimelockFirst(f) ==
  IF f.claimAddress # rskManagerAddress
  THEN LockupFailed(f, "INVALID_CLAIM_ADDRESS")
  ELSE IF f.timelock # timeoutOf(f.id)
  THEN LockupFailed(f, "INVALID_TIMELOCK")
  ELSE IF f.tokenAddress # getTokenAddress
  THEN LockupFailed(f, "INVALID_TOKEN_LOCKED")
  ELSE IF f.inst.expectedAmount # 0
          /\ formatTokenAmount(f.inst.expectedAmount) > f.amount
  THEN LockupFailed(f, "INSUFFICIENT_AMOUNT")
  ELSE <<Event("erc20.lockup", f.id, f.inst, "", f.txHash, FALSE)>>

\* The checks of the 'erc20.lockup' listener after the update.
Erc20LockupEvents(f) ==
  IF f.claimAddress # rskManagerAddress
  THEN LockupFailed(f, "INVALID_CLAIM_ADDRESS")
  ELSE IF f.tokenAddress # getTokenAddress
  THEN LockupFailed(f, "INVALID_TOKEN_LOCKED")
  ELSE IF f.timelock # timeoutOf(f.id)
  THEN LockupFailed(f, "INVALID_TIMELOCK")
  ELSE IF f.inst.expectedAmount # 0
          /\ formatTokenAmount(f.inst.expectedAmount) > f.amount
  THEN LockupFailed(f, "INSUFFICIENT_AMOUNT")
  ELSE <<Event("erc20.lockup", f.id, f.inst, "", f.txHash, FALSE)>>

\* The awaited setLockupTransaction of either listener: the update reaches the
\* table and the handler holds the updated instance.
LockupRecorded(f) ==
  setSwapLockupTransaction(
    f.inst, f.txHash,
    IF f.variant = "eth" THEN f.amount \div etherDecimals
    ELSE normalizeTokenAmount(f.amount))

LockupEvents(f) ==
  IF f.variant = "eth" THEN EthLockupEvents(f) ELSE Erc20LockupEvents(f)

\* The update made only once the checks have passed.
SetLockupTransactionIfValid(s) ==
  /\ lockups[s].pc = "found"
  /\ LET inst == LockupRecorded(lockups[s])
         ok == LockupEvents(lockups[s])[1].name # "lockup.failed"
     IN /\ swaps' = IF ok THEN updateSwapRow(lockups[s].id, inst) ELSE swaps
        /\ lockups' = [lockups EXCEPT ![s].pc = "recorded",
                                      ![s].inst = IF ok THEN inst ELSE @]
  /\ emitted' = <<>>
  /\ last' = Step("setLockupTransaction", s, lockups[s].id, lockups[s].txHash, 0)
  /\ UNCHANGED <<reverseSwaps, watchers, initPc, initQueue>>

SetLockupTransaction(s) ==
  /\ lockups[s].pc = "found"
  /\ LET inst == LockupRecorded(lockups[s]) IN
       /\ swaps' = updateSwapRow(lockups[s].id, inst)
       /\ lockups' = [lockups EXCEPT ![s].pc = "recorded", ![s].inst = inst]
  /\ emitted' = <<>>
  /\ last' = Step("setLockupTransaction", s, lockups[s].id, lockups[s].txHash, 0)
  /\ UNCHANGED <<reverseSwaps, watchers, initPc, initQueue>>

\* The rest of a lockup listener: validate, emit, return.
ValidateLockup(s) ==
  /\ lockups[s].pc = "recorded"
  /\ emitted' = LockupEvents(lockups[s])
  /\ lockups' = [lockups EXCEPT ![s] = IdleFrame]
  /\ last' = StepOn("validate", s, lockups[s].id, lockups[s].txHash, 0, lockups[s])
  /\ UNCHANGED <<swaps, reverseSwaps, watchers, initPc, initQueue>>


\* Lifecycle writes to Swap rows made by the components that consume the
\* Nursery's events (invoice payment, claim, expiry): the edges of the status
\* graph other than the lockup, which is the Nursery's own write.
SwapEdge(from, to) ==
  \/ from = SwapCreated /\ to \in {InvoiceSet, TransactionMempool, SwapExpired}
  \/ from = InvoiceSet /\ to \in {TransactionMempool, SwapExpired}
  \/ from = TransactionMempool /\ to = TransactionConfirmed
  \/ from = TransactionConfirmed /\ to \in {InvoicePaid, InvoiceFailedToPay}
  \/ from = InvoicePaid /\ to = TransactionClaimed

SwapStatuses ==
  {SwapCreated, InvoiceSet, TransactionMempool, TransactionConfirmed, InvoicePaid,
   InvoiceFailedToPay, TransactionClaimed, SwapExpired}

SetSwapStatus(id, to) ==
  /\ SwapEdge(swaps[id].status, to)
  /\ to # TransactionMempool
  /\ swaps' = [swaps EXCEPT ![id].status = to]
  /\ emitted' = <<>>
  /\ last' = Step("setSwapStatus", 0, id, 0, 0)
  /\ UNCHANGED <<reverseSwaps, lockups, watchers, initPc, initQueue>>


\* ----------------------------------------------------- ReverseSwap rows
\* txid is transactionId (0: null), preimage 0 is null, failureReason "" is
\* null.  preimageHash is the id, timeoutBlockHeight is timeoutOf(id).
ReverseSwapRow(status, chainCurrency, txid, minerFee) ==
  [status |-> status, chainCurrency |-> chainCurrency, txid |-> txid,
   minerFee |-> minerFee, preimage |-> 0, failureReason |-> ""]

\* The contract releases the coins locked under a hash to its preimage only.
preimageOf(hash) == hash + 10
LockupFees == {1}
RefundFees == {2}

\* instance.update(values): the named columns of the row with that id are
\* written from the instance, whatever the row holds by then.
updateReverseSwapRow(id, inst, columns) ==
  [reverseSwaps EXCEPT ![id] =
     [c \in DOMAIN @ |-> IF c \in columns THEN inst[c] ELSE @[c]]]

\* The instances the repository's update methods return.
setReverseSwapStatus(inst, status, failureReason) ==
  [inst EXCEPT !.status = status, !.failureReason = failureReason]

setLockupTransaction(inst, transactionId, minerFee) ==
  [inst EXCEPT !.minerFee = minerFee, !.txid = transactionId,
               !.status = TransactionMempool]

setInvoiceSettled(inst, preimage) ==
  [inst EXCEPT !.preimage = preimage, !.status = InvoiceSettled]

\* setTransactionRefunded storing the refund fee in place of the sum.
setTransactionRefundedOverwritingFee(inst, minerFee, failureReason) ==
  [inst EXCEPT !.failureReason = failureReason,
               !.minerFee = minerFee,
               !.status = TransactionRefunded]

setTransactionRefunded(inst, minerFee, failureReason) ==
  [inst EXCEPT !.failureReason = failureReason,
               !.minerFee = inst.minerFee + minerFee,
               !.status = TransactionRefunded]

\* getReverseSwaps({status: transaction.mempool})
getReverseSwapsMempoolStatus ==
  {r \in ReverseSwapIds : reverseSwaps[r].status = TransactionMempool}

\* getReverseSwap without its preimageHash condition: the first unsettled row.
getReverseSwapAnyHash(hash) ==
  LET open == {r \in ReverseSwapIds : reverseSwaps[r].status # InvoiceSettled}
  IN IF open = {} THEN 0 ELSE CHOOSE r \in open : \A q \in open : r <= q

\* getReverseSwap without its status condition.
getReverseSwapAnyStatus(hash) == IF hash \in ReverseSwapIds THEN hash ELSE 0

\* getReverseSwap({preimageHash: hash, status: not invoice.settled}): the id of
\* the matching row, 0 when there is none.
getReverseSwap(hash) ==
  IF hash \in ReverseSwapIds /\ reverseSwaps[hash].status # InvoiceSettled
  THEN hash ELSE 0

\* The exclusion list without its last entry.
NotExpirableReverseSansMempool ==
  {SwapExpired, TransactionFailed, TransactionRefunded, InvoiceSettled}

\* getReverseSwapsExpirable(height)
NotExpirableReverse ==
  {SwapExpired, TransactionFailed, TransactionRefunded, InvoiceSettled,
   TransactionMempool}

\* getReverseSwapsExpirable with Op.lt in place of Op.lte.
getReverseSwapsExpirableStrictlyPast(height) ==
  {r \in ReverseSwapIds :
     /\ reverseSwaps[r].status \notin NotExpirableReverse
     /\ timeoutOf(r) < height}

\* getReverseSwapsExpirable with Op.eq in place of Op.lte: a reverse swap is
\* returned at the height of its timeout only.
getReverseSwapsExpirableAtHeight(height) ==
  {r \in ReverseSwapIds :
     /\ reverseSwaps[r].status \notin NotExpirableReverse
     /\ timeoutOf(r) = height}

getReverseSwapsExpirable(height) ==
  {r \in ReverseSwapIds :
     /\ reverseSwaps[r].status \notin NotExpirableReverse
     /\ timeoutOf(r) <= height}

\* swapRepository.getSwapsExpirable(height)
NotExpirableSwap ==
  {SwapExpired, TransactionFailed, TransactionRefunded, InvoiceSettled}

getSwapsExpirable(height) ==
  {i \in SwapIds :
     /\ swaps[i].status \notin NotExpirableSwap
     /\ timeoutOf(i) <= height}

\* getEthereumWallet without its type condition.
getWalletOfAnyType(symbol) ==
  IF walletType(symbol) = "undefined" THEN "undefined" ELSE symbol

\* getEthereumWallet(symbol): the wallet's symbol, "undefined" when there is no
\* wallet for it or the wallet is neither an Rbtc nor an ERC20 one.
getEthereumWallet(symbol) ==
  IF walletType(symbol) = "undefined" THEN "undefined"
  ELSE IF walletType(symbol) \in {"Rbtc", "ERC20"} THEN symbol
  ELSE "undefined"

\* The ids of a finite set of naturals in ascending order: the order rows are
\* returned in.
RECURSIVE Ascending(_)
Ascending(S) ==
  IF S = {} THEN <<>>
  ELSE LET m == CHOOSE x \in S : \A y \in S : x <= y
       IN <<m>> \o Ascending(S \ {m})

RECURSIVE Concat(_)
Concat(seqs) == IF seqs = <<>> THEN <<>> ELSE Head(seqs) \o Concat(Tail(seqs))

\* checkExpiredSwaps(height): the events of its loop.
checkExpiredSwaps(height) ==
  LET ids == Ascending(getSwapsExpirable(height))
      one(i) ==
        LET wallet == getEthereumWallet(swaps[i].chainCurrency) IN
          IF wallet # "undefined"
          THEN <<Event("swap.expired", i, swaps[i], "", 0, wallet = "RBTC")>>
          ELSE <<>>
  IN Concat([k \in 1..Len(ids) |-> one(ids[k])])

\* checkExpiredReverseSwaps(height): the events of its loop.
checkExpiredReverseSwaps(height) ==
  LET ids == Ascending(getReverseSwapsExpirable(height))
      one(r) ==
        LET wallet == getEthereumWallet(reverseSwaps[r].chainCurrency) IN
          IF wallet # "undefined"
          THEN <<Event("reverseSwap.expired", r, reverseSwaps[r], "", 0, wallet = "RBTC")>>
          ELSE <<>>
  IN Concat([k \in 1..Len(ids) |-> one(ids[k])])

\* provider.on('block'): both scans; which of the two queries resolves first
\* is not determined.
Block(height, swapsFirst) ==
  /\ emitted' = IF swapsFirst
                THEN checkExpiredSwaps(height) \o checkExpiredReverseSwaps(height)
                ELSE checkExpiredReverseSwaps(height) \o checkExpiredSwaps(height)
  /\ last' = Step("block", 0, 0, 0, height)
  /\ UNCHANGED <<swaps, reverseSwaps, lockups, watchers, initPc, initQueue>>

\* A claim listener that settles the reverse swap itself.
ClaimSettling(variant, hash) ==
  /\ LET r == getReverseSwap(hash) IN
       /\ emitted' = IF r = 0 THEN <<>>
                     ELSE <<Event("claim", r, reverseSwaps[r], "", preimageOf(hash), FALSE)>>
       /\ reverseSwaps' =
            IF r = 0 THEN reverseSwaps
            ELSE updateReverseSwapRow(
                   r, setInvoiceSettled(reverseSwaps[r], preimageOf(hash)),
                   {"preimage", "status"})
  /\ last' = Step(variant, 0, hash, 0, 0)
  /\ UNCHANGED <<swaps, lockups, watchers, initPc, initQueue>>

\* 'eth.claim' and 'erc20.claim' listeners (the two are the same code).
Claim(variant, hash) ==
  /\ LET r == getReverseSwap(hash) IN
       emitted' = IF r = 0 THEN <<>>
                  ELSE <<Event("claim", r, reverseSwaps[r], "", preimageOf(hash), FALSE)>>
  /\ last' = Step(variant, 0, hash, 0, 0)
  /\ UNCHANGED <<swaps, reverseSwaps, lockups, watchers, initPc, initQueue>>


\* ------------------------------------------------ confirmation watchers
\* `sent` is the set of events this attachment has emitted so far.
NoWatcher == [pc |-> "none", inst |-> ReverseSwapRow("none", "none", 0, 0), sent |-> {}]

\* listenContractTransaction(reverseSwap, transaction): wait(1) is pending.
listenContractTransaction(r, inst) ==
  [watchers EXCEPT ![r] = [pc |-> "waiting", inst |-> inst, sent |-> {}]]

\* The callback going on to its emit without the update having reached the
\* table.
WatcherSettledWithoutWrite(r, ok) ==
  /\ watchers[r].pc = "waiting"
  /\ watchers' = [watchers EXCEPT ![r] =
                    [pc |-> IF ok THEN "confirmed" ELSE "failed",
                     inst |-> setReverseSwapStatus(
                                watchers[r].inst,
                                IF ok THEN TransactionConfirmed ELSE TransactionFailed, ""),
                     sent |-> {}]]
  /\ emitted' = <<>>
  /\ last' = Step(IF ok THEN "wait.resolved" ELSE "wait.rejected", 0, r, 0, 0)
  /\ UNCHANGED <<swaps, reverseSwaps, lockups, initPc, initQueue>>

\* The callback emitting the instance it was given instead of the one the
\* update returned.
WatcherSettledKeepingInstance(r, ok) ==
  /\ watchers[r].pc = "waiting"
  /\ LET inst == setReverseSwapStatus(
                   watchers[r].inst,
                   IF ok THEN TransactionConfirmed ELSE TransactionFailed, "")
     IN /\ reverseSwaps' = updateReverseSwapRow(r, inst, {"status", "failureReason"})
        /\ watchers' = [watchers EXCEPT ![r].pc = IF ok THEN "confirmed" ELSE "failed"]
  /\ emitted' = <<>>
  /\ last' = Step(IF ok THEN "wait.resolved" ELSE "wait.rejected", 0, r, 0, 0)
  /\ UNCHANGED <<swaps, lockups, initPc, initQueue>>

\* wait(1) resolved (ok) or rejected: the then / catch callback runs up to its
\* await, the status update reaching the table.
WatcherSettled(r, ok) ==
  /\ watchers[r].pc = "waiting"
  /\ LET inst == setReverseSwapStatus(
                   watchers[r].inst,
                   IF ok THEN TransactionConfirmed ELSE TransactionFailed, "")
     IN /\ reverseSwaps' = updateReverseSwapRow(r, inst, {"status", "failureReason"})
        /\ watchers' = [watchers EXCEPT ![r] =
                          [pc |-> IF ok THEN "confirmed" ELSE "failed", inst |-> inst,
                           sent |-> {}]]
  /\ emitted' = <<>>
  /\ last' = Step(IF ok THEN "wait.resolved" ELSE "wait.rejected", 0, r, 0, 0)
  /\ UNCHANGED <<swaps, lockups, initPc, initQueue>>

\* The callback after its await: the emit.
WatcherEmit(r) ==
  /\ watchers[r].pc \in {"confirmed", "failed"}
  /\ emitted' =
       IF watchers[r].pc = "confirmed"
       THEN <<Event("lockup.confirmed", r, watchers[r].inst, "", watchers[r].inst.txid, FALSE)>>
       ELSE <<Event("lockup.failedToSend", r, watchers[r].inst, "reason", 0, FALSE)>>
  /\ watchers' = [watchers EXCEPT ![r] = NoWatcher]
  /\ last' = Step("watcherEmit", 0, r, 0, 0)
  /\ UNCHANGED <<swaps, reverseSwaps, lockups, initPc, initQueue>>

\* wait(1) resolved and the update awaited in the then-callback rejected:
\* nothing is written, and the rejection of the then-callback goes to the
\* catch-callback chained after it.
WatcherUpdateThrows(r) ==
  /\ watchers[r].pc = "waiting"
  /\ watchers' = [watchers EXCEPT ![r].pc = "thrown"]
  /\ emitted' = <<>>
  /\ last' = Step("wait.resolved.throw", 0, r, 0, 0)
  /\ UNCHANGED <<swaps, reverseSwaps, lockups, initPc, initQueue>>

\* A listener of lockup.confirmed threw: emit rethrows into the then-callback,
\* whose rejection goes to the catch-callback chained after it.
WatcherEmitThrows(r) ==
  /\ watchers[r].pc = "confirmed"
  /\ emitted' =
       <<Event("lockup.confirmed", r, watchers[r].inst, "", watchers[r].inst.txid, FALSE)>>
  /\ watchers' = [watchers EXCEPT ![r].pc = "thrown",
                                  ![r].sent = @ \cup {"lockup.confirmed"}]
  /\ last' = Step("watcherEmit.throw", 0, r, 0, 0)
  /\ UNCHANGED <<swaps, reverseSwaps, lockups, initPc, initQueue>>

\* The catch-callback run on a rejection of the then-callback, up to its
\* await: the same update as for a rejected wait(1), on the same instance.
WatcherCaught(r) ==
  /\ watchers[r].pc = "thrown"
  /\ LET inst == setReverseSwapStatus(watchers[r].inst, TransactionFailed, "")
     IN /\ reverseSwaps' = updateReverseSwapRow(r, inst, {"status", "failureReason"})
        /\ watchers' = [watchers EXCEPT ![r].pc = "failed", ![r].inst = inst]
  /\ emitted' = <<>>
  /\ last' = Step("catch", 0, r, 0, 0)
  /\ UNCHANGED <<swaps, lockups, initPc, initQueue>>

\* --------------------------------------------------------------- init()
\* The query of init(): the reverse swaps with a pending lockup transaction,
\* each with the instance the query returned.
InitQuery ==
  /\ initPc = "start"
  /\ initPc' = "loop"
  /\ initQueue' = LET ids == Ascending(getReverseSwapsMempoolStatus)
                  IN [k \in 1..Len(ids) |-> [id |-> ids[k], inst |-> reverseSwaps[ids[k]]]]
  /\ emitted' = <<>>
  /\ last' = Step("init", 0, 0, 0, 0)
  /\ UNCHANGED <<swaps, reverseSwaps, lockups, watchers>>

\* The loop of init() without the skip of reverse swaps of other chains.
InitVisitAnyChain(found) ==
  /\ initPc = "loop"
  /\ IF initQueue = <<>>
     THEN /\ initPc' = "done"
          /\ UNCHANGED <<initQueue, watchers>>
     ELSE LET head == Head(initQueue) IN
          /\ initPc' = initPc
          /\ initQueue' = Tail(initQueue)
          /\ watchers' = IF found THEN listenContractTransaction(head.id, head.inst)
                         ELSE watchers
  /\ emitted' = <<>>
  /\ last' =
       IF initQueue = <<>> THEN Step("initVisit", 0, 0, 0, 0)
       ELSE Step(IF found THEN "initVisit.found" ELSE "initVisit.notFound",
                 0, Head(initQueue).id, 0, 0)
  /\ UNCHANGED <<swaps, reverseSwaps, lockups>>

\* The loop of init() without its try / catch: a failed lookup ends init().
InitVisitAbortOnFailure(found) ==
  /\ initPc = "loop"
  /\ IF initQueue = <<>>
     THEN /\ initPc' = "done"
          /\ UNCHANGED <<initQueue, watchers>>
     ELSE LET head == Head(initQueue)
              here == getEthereumWallet(head.inst.chainCurrency) # "undefined"
          IN /\ initPc' = IF here /\ ~found THEN "done" ELSE initPc
             /\ initQueue' = IF here /\ ~found THEN <<>> ELSE Tail(initQueue)
             /\ watchers' = IF here /\ found
                            THEN listenContractTransaction(head.id, head.inst)
                            ELSE watchers
  /\ emitted' = <<>>
  /\ last' =
       IF initQueue = <<>> THEN Step("initVisit", 0, 0, 0, 0)
       ELSE IF getEthereumWallet(Head(initQueue).inst.chainCurrency) = "undefined"
       THEN Step("initVisit", 0, Head(initQueue).id, 0, 0)
       ELSE Step(IF found THEN "initVisit.found" ELSE "initVisit.notFound",
                 0, Head(initQueue).id, 0, 0)
  /\ UNCHANGED <<swaps, reverseSwaps, lockups>>

\* One iteration of init()'s loop; `found` is whether provider.getTransaction
\* returned the transaction or threw.  With the queue empty init() returns.
InitVisit(found) ==
  /\ initPc = "loop"
  /\ IF initQueue = <<>>
     THEN /\ initPc' = "done"
          /\ UNCHANGED <<initQueue, watchers>>
     ELSE LET head == Head(initQueue) IN
          /\ initPc' = initPc
          /\ initQueue' = Tail(initQueue)
          /\ watchers' =
               IF getEthereumWallet(head.inst.chainCurrency) = "undefined"
               THEN watchers
               ELSE IF found
               THEN listenContractTransaction(head.id, head.inst)
               ELSE watchers
  /\ emitted' = <<>>
  /\ last' =
       IF initQueue = <<>> THEN Step("initVisit", 0, 0, 0, 0)
       ELSE IF getEthereumWallet(Head(initQueue).inst.chainCurrency) = "undefined"
       THEN Step("initVisit", 0, Head(initQueue).id, 0, 0)
       ELSE Step(IF found THEN "initVisit.found" ELSE "initVisit.notFound",
                 0, Head(initQueue).id, 0, 0)
  /\ UNCHANGED <<swaps, reverseSwaps, lockups>>

\* ------------------------------------- the service around the Nursery
\* The lockup of a reverse swap is sent once init() has returned: the row is
\* written by setLockupTransaction and the transaction is handed to
\* listenContractTransaction.
LockupSent(r, fee) ==
  /\ initPc = "done"
  /\ reverseSwaps[r].status = SwapCreated
  /\ watchers[r].pc = "none"
  /\ LET inst == setLockupTransaction(reverseSwaps[r], r, fee) IN
       /\ reverseSwaps' = updateReverseSwapRow(r, inst, {"minerFee", "txid", "status"})
       /\ watchers' = listenContractTransaction(r, inst)
  /\ emitted' = <<>>
  /\ last' = Step("lockupSent", 0, r, r, 0)
  /\ UNCHANGED <<swaps, lockups, initPc, initQueue>>

\* The claim of the locked coins was seen and the hold invoice settled.
InvoiceSettledBy(r) ==
  /\ reverseSwaps[r].status \in {TransactionMempool, TransactionConfirmed}
  /\ reverseSwaps' = updateReverseSwapRow(
                       r, setInvoiceSettled(reverseSwaps[r], preimageOf(r)),
                       {"preimage", "status"})
  /\ emitted' = <<>>
  /\ last' = Step("setInvoiceSettled", 0, r, 0, 0)
  /\ UNCHANGED <<swaps, lockups, watchers, initPc, initQueue>>

\* The consumer of reverseSwap.expired: a reverse swap with a lockup
\* transaction is refunded, one without is marked expired.
ReverseSwapExpiredBy(r, fee) ==
  /\ reverseSwaps[r].status \notin NotExpirableReverse
  /\ reverseSwaps' =
       IF reverseSwaps[r].txid # 0
       THEN updateReverseSwapRow(
              r, setTransactionRefunded(reverseSwaps[r], fee, "refunded"),
              {"failureReason", "minerFee", "status"})
       ELSE updateReverseSwapRow(
              r, setReverseSwapStatus(reverseSwaps[r], SwapExpired, ""),
              {"status", "failureReason"})
  /\ emitted' = <<>>
  /\ last' = Step("reverseSwapExpired", 0, r, 0, 0)
  /\ UNCHANGED <<swaps, lockups, watchers, initPc, initQueue>>

\* ----------------------------------------------------------------- Init
\* The tables as a start of the process finds them: swaps just created, on any
\* chain; reverse swaps created or with a lockup transaction pending from an
\* earlier run; no handler in flight, no watcher attached.
InitSwaps ==
  \E chain \in [SwapIds -> Symbols] :
    swaps = [i \in SwapIds |-> SwapRow(SwapCreated, chain[i], expectedAmountOf(i))]

InitReverseSwaps ==
  reverseSwaps \in [ReverseSwapIds ->
    {ReverseSwapRow(SwapCreated, c, 0, 0) : c \in Symbols}
    \cup {ReverseSwapRow(TransactionMempool, c, 1, 1) : c \in Symbols}]

InitRest ==
  /\ lockups = [s \in Slots |-> IdleFrame]
  /\ watchers = [r \in ReverseSwapIds |-> NoWatcher]
  /\ initPc = "start"
  /\ initQueue = <<>>
  /\ emitted = <<>>
  /\ last = Step("start", 0, 0, 0, 0)

Init == InitSwaps /\ InitReverseSwaps /\ InitRest

\* ----------------------------------------------------------------- Next
LockupEvent ==
  \E s \in Slots, txHash \in TxHashes, hash \in Hashes, claimAddress \in Addresses,
     timelock \in Timelocks, amount \in Amounts :
    \/ EthLockup(s, txHash, hash, claimAddress, timelock, amount)
    \/ \E tokenAddress \in TokenAddresses :
         Erc20Lockup(s, txHash, hash, claimAddress, timelock, tokenAddress, amount)

LockupStep == \E s \in Slots : SetLockupTransaction(s) \/ ValidateLockup(s)

SwapLifecycle == \E i \in SwapIds, to \in SwapStatuses : SetSwapStatus(i, to)

BlockEvent == \E height \in Heights, swapsFirst \in BOOLEAN : Block(height, swapsFirst)

ClaimEvent ==
  \E variant \in {"eth.claim", "erc20.claim"}, hash \in Hashes : Claim(variant, hash)

WatcherStep ==
  \E r \in ReverseSwapIds :
    \/ \E ok \in BOOLEAN : WatcherSettled(r, ok)
    \/ WatcherEmit(r)
    \/ WatcherUpdateThrows(r)
    \/ WatcherEmitThrows(r)
    \/ WatcherCaught(r)

InitStep == InitQuery \/ \E found \in BOOLEAN : InitVisit(found)

ReverseSwapLifecycle ==
  \E r \in ReverseSwapIds :
    \/ \E fee \in LockupFees : LockupSent(r, fee)
    \/ \E fee \in RefundFees : ReverseSwapExpiredBy(r, fee)
    \/ InvoiceSettledBy(r)

Next ==
  \/ LockupEvent
  \/ LockupStep
  \/ SwapLifecycle
  \/ BlockEvent
  \/ ClaimEvent
  \/ WatcherStep
  \/ InitStep
  \/ ReverseSwapLifecycle

Spec == Init /\ [][Next]_vars

\* The two tables are written by disjoint sets of handlers, and no handler
\* but the block listener reads both, so each side is checked with the other
\* table at rest.  In SwapSpec the contract event source delivers a lockup
\* event when no lockup listener is in flight; the lifecycle writes and the
\* block listener run between the steps of a listener.
FixedReverseSwaps ==
  reverseSwaps = [r \in ReverseSwapIds |->
                    ReverseSwapRow(SwapCreated, IF r = 1 THEN "RBTC" ELSE "BTC", 0, 0)]

FixedSwaps ==
  swaps = [i \in SwapIds |->
             SwapRow(SwapCreated, IF i = 1 THEN "RBTC" ELSE "LTC", expectedAmountOf(i))]

SwapInit == InitSwaps /\ FixedReverseSwaps /\ InitRest
NoLockupInFlight == \A s \in Slots : lockups[s].pc = "idle"

SerialEthLockup(txHash, hash, claimAddress, timelock, amount) ==
  NoLockupInFlight /\ EthLockup(1, txHash, hash, claimAddress, timelock, amount)

SerialErc20Lockup(txHash, hash, claimAddress, timelock, tokenAddress, amount) ==
  NoLockupInFlight
  /\ Erc20Lockup(1, txHash, hash, claimAddress, timelock, tokenAddress, amount)

SwapNext ==
  \/ \E txHash \in TxHashes, hash \in Hashes, claimAddress \in Addresses,
        timelock \in Timelocks, amount \in Amounts :
       \/ SerialEthLockup(txHash, hash, claimAddress, timelock, amount)
       \/ \E tokenAddress \in TokenAddresses :
            SerialErc20Lockup(txHash, hash, claimAddress, timelock, tokenAddress, amount)
  \/ LockupStep
  \/ SwapLifecycle
  \/ BlockEvent
SwapSpec == SwapInit /\ [][SwapNext]_vars

ReverseSwapInit == FixedSwaps /\ InitReverseSwaps /\ InitRest
ReverseSwapNext ==
  BlockEvent \/ ClaimEvent \/ WatcherStep \/ InitStep \/ ReverseSwapLifecycle
ReverseSwapSpec == ReverseSwapInit /\ [][ReverseSwapNext]_vars


\* The handlers that emit after a write of their own, on both tables: swaps
\* awaiting their lockup in the native asset (odd ids) and in the token,
\* reverse swaps with a lockup pending from an earlier run (odd ids), whose
\* watchers init() attaches, and newly created.  Of the lifecycle writes, those that can follow the
\* handler's write to the same row before its emit: the confirmation of a
\* recorded lockup and the settlement of a claimed reverse swap.
EventInit ==
  /\ swaps = [i \in SwapIds |->
               SwapRow(SwapCreated, IF i % 2 = 1 THEN "RBTC" ELSE "XUSD",
                       expectedAmountOf(i))]
  /\ reverseSwaps = [r \in ReverseSwapIds |->
                      IF r % 2 = 1 THEN ReverseSwapRow(TransactionMempool, "RBTC", 1, 1)
                      ELSE ReverseSwapRow(SwapCreated, "XUSD", 0, 0)]
  /\ InitRest

EventNext ==
  \/ \E txHash \in TxHashes, hash \in Hashes, claimAddress \in Addresses,
        timelock \in Timelocks, amount \in Amounts :
       \/ SerialEthLockup(txHash, hash, claimAddress, timelock, amount)
       \/ \E tokenAddress \in TokenAddresses :
            SerialErc20Lockup(txHash, hash, claimAddress, timelock, tokenAddress, amount)
  \/ LockupStep
  \/ \E i \in SwapIds : SetSwapStatus(i, TransactionConfirmed)
  \/ WatcherStep
  \/ InitStep
  \/ \E r \in ReverseSwapIds : InvoiceSettledBy(r)
EventSpec == EventInit /\ [][EventNext]_vars


\* Lockup events delivered while other lockup listeners are in flight: every
\* interleaving of the lookups, updates and emits of up to MaxInFlight
\* listeners, on the swaps of EventInit.
ConcurrentLockupNext == LockupEvent \/ LockupStep
ConcurrentLockupSpec == EventInit /\ [][ConcurrentLockupNext]_vars


\* ============================================================== claims
\* What a step emitted, by event name and entity.
EmittedFor(name, id) ==
  {k \in 1..Len(emitted) : emitted[k].name = name /\ emitted[k].id = id}

EmittedNamed(names) == {k \in 1..Len(emitted) : emitted[k].name \in names}

LockupEventNames == {"lockup.failed", "eth.lockup", "erc20.lockup"}
LockupArrivals == {"eth.lockup", "erc20.lockup"}
ClaimArrivals == {"eth.claim", "erc20.claim"}

OnThisChain(symbol) == walletType(symbol) \in {"Rbtc", "ERC20"}

VariantLockup(f) == IF f.variant = "eth" THEN "eth.lockup" ELSE "erc20.lockup"
NativeUnits(f) == IF f.variant = "eth" THEN etherDecimals ELSE tokenDecimals

\* The checks a lockup fails, by rejection reason.
Failing(f) ==
  {reason \in {"INVALID_CLAIM_ADDRESS", "INVALID_TIMELOCK", "INVALID_TOKEN_LOCKED",
               "INSUFFICIENT_AMOUNT"} :
     \/ reason = "INVALID_CLAIM_ADDRESS" /\ f.claimAddress # rskManagerAddress
     \/ reason = "INVALID_TIMELOCK" /\ f.timelock # timeoutOf(f.id)
     \/ reason = "INVALID_TOKEN_LOCKED" /\ f.variant = "erc20"
          /\ f.tokenAddress # getTokenAddress
     \/ reason = "INSUFFICIENT_AMOUNT" /\ expectedAmountOf(f.id) # 0
          /\ f.amount < expectedAmountOf(f.id) * NativeUnits(f)}

\* The first reason of a priority order that is among the failing ones.
FirstOf(order, failing) ==
  order[CHOOSE k \in 1..Len(order) :
          order[k] \in failing /\ \A j \in 1..(k - 1) : order[j] \notin failing]

\* C2: the step of a lockup listener that follows a match writes
\* transaction.mempool and the event's txHash to the swap and emits nothing;
\* the validation step that follows it writes nothing, whatever it decides,
\* and the events it emits carry the swap in transaction.mempool with that
\* txHash; no lockup event is emitted by a step other than a validation step.
C2_RecordedBeforeValidation ==
  [][/\ \A s \in Slots :
          /\ (lockups[s].pc = "found" /\ lockups'[s].pc = "recorded") =>
               /\ swaps'[lockups[s].id].status = TransactionMempool
               /\ swaps'[lockups[s].id].txid = lockups[s].txHash
               /\ emitted' = <<>>
          /\ (lockups[s].pc = "recorded" /\ lockups'[s].pc # "recorded") =>
               /\ swaps' = swaps
               /\ \A k \in 1..Len(emitted') :
                    /\ emitted'[k].status = TransactionMempool
                    /\ emitted'[k].txid = lockups[s].txHash
     /\ (\E k \in 1..Len(emitted') : emitted'[k].name \in LockupEventNames) =>
          \E s \in Slots : lockups[s].pc = "recorded" /\ lockups'[s].pc = "idle"
    ]_vars

\* A lockup was rejected and its swap is in transaction.mempool with the
\* event's txHash.
C2_Witness ==
  /\ last.op = "validate"
  /\ Len(emitted) = 1
  /\ emitted[1].name = "lockup.failed"
  /\ swaps[last.hash].status = TransactionMempool
  /\ swaps[last.hash].txid = last.txHash

\* C3: a validation step emits the success event of its contract when the
\* claim address is the service's, the timelock is the swap's
\* timeoutBlockHeight, the token (token variant) is the wallet's and the
\* amount, in chain units, is not below a set expectedAmount; it emits
\* lockup.failed otherwise.
C3_AcceptedIffValid ==
  last.op = "validate" =>
    LET f == last.frame
        valid ==
          /\ f.claimAddress = rskManagerAddress
          /\ f.timelock = timeoutOf(f.id)
          /\ f.variant = "erc20" => f.tokenAddress = getTokenAddress
          /\ \/ expectedAmountOf(f.id) = 0
             \/ f.amount >= expectedAmountOf(f.id) * NativeUnits(f)
    IN /\ valid => EmittedNamed({VariantLockup(f)}) # {} /\ EmittedNamed({"lockup.failed"}) = {}
       /\ ~valid => EmittedNamed({"lockup.failed"}) # {} /\ EmittedNamed(LockupArrivals) = {}

\* A lockup of exactly the expected amount was accepted.
C3_Witness ==
  /\ last.op = "validate"
  /\ expectedAmountOf(last.frame.id) # 0
  /\ last.frame.amount = expectedAmountOf(last.frame.id) * NativeUnits(last.frame)
  /\ EmittedNamed(LockupArrivals) # {}

\* C4 as claimed: of several failing checks the reason reported is the first
\* in the order claim address, timelock, token address, amount.
ClaimedOrder ==
  <<"INVALID_CLAIM_ADDRESS", "INVALID_TIMELOCK", "INVALID_TOKEN_LOCKED",
    "INSUFFICIENT_AMOUNT">>

C4_ClaimedPriority ==
  (last.op = "validate" /\ Cardinality(Failing(last.frame)) > 1) =>
    /\ Len(emitted) >= 1
    /\ emitted[1].reason = FirstOf(ClaimedOrder, Failing(last.frame))

\* C4 amended: of several failing checks the reason reported is the first in
\* the order claim address, token address (token variant), timelock, amount.
CheckedOrder ==
  <<"INVALID_CLAIM_ADDRESS", "INVALID_TOKEN_LOCKED", "INVALID_TIMELOCK",
    "INSUFFICIENT_AMOUNT">>

C4_CheckedPriority ==
  (last.op = "validate" /\ Cardinality(Failing(last.frame)) > 1) =>
    /\ Len(emitted) >= 1
    /\ emitted[1].name = "lockup.failed"
    /\ emitted[1].reason = FirstOf(CheckedOrder, Failing(last.frame))

\* A token lockup with the wrong token and the wrong timelock was rejected
\* for its token.
C4_Witness ==
  /\ last.op = "validate"
  /\ last.frame.variant = "erc20"
  /\ {"INVALID_TIMELOCK", "INVALID_TOKEN_LOCKED"} \subseteq Failing(last.frame)
  /\ "INVALID_CLAIM_ADDRESS" \notin Failing(last.frame)
  /\ emitted[1].reason = "INVALID_TOKEN_LOCKED"

\* C5: the handler of a matched lockup event emits one domain event in all,
\* lockup.failed or the success event of its contract, for its swap: exactly
\* one in its validation step and none in the steps before.
C5_ExactlyOneEvent ==
  /\ last.op = "validate" =>
       /\ Len(emitted) = 1
       /\ emitted[1].name \in {"lockup.failed", VariantLockup(last.frame)}
       /\ emitted[1].id = last.frame.id
  /\ last.op \in LockupArrivals \cup {"setLockupTransaction"} => emitted = <<>>

\* A native lockup failing every check produced one event.
C5_Witness ==
  /\ last.op = "validate"
  /\ last.frame.variant = "eth"
  /\ Cardinality(Failing(last.frame)) = 3
  /\ Len(emitted) = 1

\* C6: a lockup event that arrives when its swap is in transaction.mempool
\* with that event's txHash recorded, no listener being in flight, changes
\* nothing and emits nothing.
C6_ReplayIsNoOp ==
  [][(/\ last'.op \in LockupArrivals
      /\ last'.hash \in SwapIds
      /\ swaps[last'.hash].status = TransactionMempool
      /\ swaps[last'.hash].txid = last'.txHash
      /\ NoLockupInFlight) =>
       /\ emitted' = <<>>
       /\ UNCHANGED <<swaps, reverseSwaps, lockups, watchers, initPc, initQueue>>
    ]_vars

\* The event of a recorded lockup was delivered again, to the listener of the
\* swap's own chain.
C6_Witness ==
  /\ last.op \in LockupArrivals
  /\ last.hash \in SwapIds
  /\ swaps[last.hash].status = TransactionMempool
  /\ swaps[last.hash].txid = last.txHash
  /\ (last.op = "eth.lockup") = (swaps[last.hash].chainCurrency = "RBTC")
  /\ OnThisChain(swaps[last.hash].chainCurrency)
  /\ NoLockupInFlight
  /\ emitted = <<>>


\* The lifecycle graph of reverse swaps: created -> transaction.mempool ->
\* transaction.confirmed -> invoice.settled (transaction.confirmed is skipped
\* for a 0-conf claim), and the failure branches.
ReverseSwapEdge(from, to) ==
  \/ from = SwapCreated /\ to \in {TransactionMempool, SwapExpired, TransactionFailed}
  \/ from = TransactionMempool
       /\ to \in {TransactionConfirmed, InvoiceSettled, TransactionFailed,
                  TransactionRefunded}
  \/ from = TransactionConfirmed /\ to \in {InvoiceSettled, TransactionRefunded}

TerminalReverse == {InvoiceSettled, TransactionRefunded, SwapExpired, TransactionFailed}

\* C7 as claimed: every status change of a swap or a reverse swap follows an
\* edge of its lifecycle graph.
C7_StatusFollowsGraph ==
  [][/\ \A i \in SwapIds :
          swaps'[i].status # swaps[i].status =>
            SwapEdge(swaps[i].status, swaps'[i].status)
     /\ \A r \in ReverseSwapIds :
          reverseSwaps'[r].status # reverseSwaps[r].status =>
            ReverseSwapEdge(reverseSwaps[r].status, reverseSwaps'[r].status)
    ]_vars

\* C8 as claimed: the status of a reverse swap in a terminal status does not
\* change any more.
C8_TerminalIsFinal ==
  [][\A r \in ReverseSwapIds :
       reverseSwaps[r].status \in TerminalReverse =>
         reverseSwaps'[r].status = reverseSwaps[r].status
    ]_vars

C10_UnknownClaimIsNoOp ==
  [][(last'.op \in ClaimArrivals /\ last'.hash \notin ReverseSwapIds) =>
       /\ emitted' = <<>>
       /\ UNCHANGED <<swaps, reverseSwaps, lockups, watchers, initPc, initQueue>>
    ]_vars

\* A claim event for an unknown preimageHash was handled while a reverse swap
\* that a claim would match exists.
C10_Witness ==
  /\ last.op \in ClaimArrivals
  /\ last.hash \notin ReverseSwapIds
  /\ emitted = <<>>
  /\ \E r \in ReverseSwapIds : reverseSwaps[r].status = TransactionConfirmed

\* C11: a claim event whose preimageHash is that of a reverse swap emits one
\* claim event, carrying that reverse swap and the preimage of the event, when
\* the reverse swap is not in invoice.settled, and emits nothing when it is;
\* either way it writes nothing.
C11_ClaimEmittedIffNotSettled ==
  (last.op \in ClaimArrivals /\ last.hash \in ReverseSwapIds) =>
    IF reverseSwaps[last.hash].status # InvoiceSettled
    THEN /\ Len(emitted) = 1
         /\ emitted[1].name = "claim"
         /\ emitted[1].id = last.hash
         /\ emitted[1].arg = preimageOf(last.hash)
         /\ emitted[1].status = reverseSwaps[last.hash].status
    ELSE emitted = <<>>

\* A claim event for a settled reverse swap was handled, and nothing was
\* emitted.
C11_Witness ==
  /\ last.op \in ClaimArrivals
  /\ last.hash \in ReverseSwapIds
  /\ reverseSwaps[last.hash].status = InvoiceSettled
  /\ reverseSwaps[last.hash].preimage = preimageOf(last.hash)
  /\ emitted = <<>>

WatcherEventNames == {"lockup.confirmed", "lockup.failedToSend"}

\* C12: when the wait of a watcher resolves, the step writes
\* transaction.confirmed to the reverse swap and emits nothing, and the step
\* that follows emits lockup.confirmed with the reverse swap and the hash of
\* the lockup transaction and writes nothing; when the wait rejects, the same
\* with transaction.failed and lockup.failedToSend with the reason.  Neither
\* event is emitted by any other step, so the write always comes first.
C12_WriteThenEmit ==
  [][/\ last'.op = "wait.resolved" =>
          /\ reverseSwaps'[last'.hash].status = TransactionConfirmed
          /\ watchers'[last'.hash].pc = "confirmed"
          /\ emitted' = <<>>
     /\ last'.op = "wait.rejected" =>
          /\ reverseSwaps'[last'.hash].status = TransactionFailed
          /\ watchers'[last'.hash].pc = "failed"
          /\ emitted' = <<>>
     /\ \A r \in ReverseSwapIds :
          /\ (watchers[r].pc = "confirmed" /\ watchers'[r].pc # "confirmed") =>
               /\ Len(emitted') = 1
               /\ emitted'[1].name = "lockup.confirmed"
               /\ emitted'[1].id = r
               /\ emitted'[1].arg = watchers[r].inst.txid
               /\ emitted'[1].arg # 0
               /\ reverseSwaps' = reverseSwaps
          /\ (watchers[r].pc = "failed" /\ watchers'[r].pc # "failed") =>
               /\ Len(emitted') = 1
               /\ emitted'[1].name = "lockup.failedToSend"
               /\ emitted'[1].id = r
               /\ emitted'[1].reason = "reason"
               /\ reverseSwaps' = reverseSwaps
     /\ \A k \in 1..Len(emitted') :
          emitted'[k].name \in WatcherEventNames =>
            /\ watchers[emitted'[k].id].pc =
                 (IF emitted'[k].name = "lockup.confirmed" THEN "confirmed" ELSE "failed")
            /\ watchers'[emitted'[k].id].pc \in {"none", "thrown"}
    ]_vars

\* lockup.confirmed was emitted with the hash of the lockup transaction for a
\* reverse swap that is in transaction.confirmed.
C12_Witness ==
  /\ last.op = "watcherEmit"
  /\ Len(emitted) = 1
  /\ emitted[1].name = "lockup.confirmed"
  /\ emitted[1].arg = reverseSwaps[last.hash].txid
  /\ reverseSwaps[last.hash].status = TransactionConfirmed

InitSteps == {"init", "initVisit", "initVisit.found", "initVisit.notFound"}

\* C13: the query of init() returns the reverse swaps in transaction.mempool
\* and no others; an iteration of its loop attaches a watcher to the reverse
\* swap it visits when that settles on a wallet of this chain and the lookup
\* of its transaction succeeded, and attaches nothing otherwise; until init()
\* has returned no watcher is attached in any other way, and no step of
\* init() writes to a reverse swap or emits an event.
C13_InitAttachesExactly ==
  [][/\ last'.op = "init" =>
          {initQueue'[k].id : k \in 1..Len(initQueue')} =
            {r \in ReverseSwapIds : reverseSwaps[r].status = TransactionMempool}
     /\ (last'.op \in InitSteps \ {"init"} /\ initQueue # <<>>) =>
          LET head == Head(initQueue) IN
            /\ last'.hash = head.id
            /\ head.inst.status = TransactionMempool
            /\ watchers'[head.id].pc = "waiting" <=>
                 /\ OnThisChain(head.inst.chainCurrency)
                 /\ last'.op = "initVisit.found"
            /\ \A r \in ReverseSwapIds \ {head.id} : watchers'[r] = watchers[r]
     /\ last'.op \in InitSteps => reverseSwaps' = reverseSwaps /\ emitted' = <<>>
     /\ \A r \in ReverseSwapIds :
          (initPc # "done" /\ watchers[r].pc = "none" /\ watchers'[r].pc # "none") =>
            last'.op = "initVisit.found" /\ last'.hash = r
    ]_vars

\* init() has returned: one reverse swap found in transaction.mempool has its
\* watcher, another, settled on a chain without a wallet here, has none.
C13_Witness ==
  /\ last.op = "initVisit"
  /\ initPc = "done"
  /\ \E r, q \in ReverseSwapIds :
       /\ watchers[r].pc = "waiting"
       /\ reverseSwaps[r].status = TransactionMempool
       /\ reverseSwaps[q].status = TransactionMempool
       /\ ~OnThisChain(reverseSwaps[q].chainCurrency)
       /\ watchers[q].pc = "none"

\* The listener a lockup event of a swap's chain currency arrives at.
ListenerOf(symbol) == IF symbol = "RBTC" THEN "eth.lockup" ELSE "erc20.lockup"

\* C14: a lockup event carrying the preimageHash of a swap that is in
\* swap.expired changes neither the swap nor anything else, starts no
\* listener continuation and emits nothing.
C14_ExpiredSwapIgnoresLockup ==
  [][(/\ last'.op \in LockupArrivals
      /\ last'.hash \in SwapIds
      /\ swaps[last'.hash].status = SwapExpired) =>
       /\ emitted' = <<>>
       /\ UNCHANGED <<swaps, reverseSwaps, lockups, watchers, initPc, initQueue>>
    ]_vars

\* The lockup of an expired swap of this chain arrived at the listener of its
\* contract: the swap is still expired, without a lockup transaction.
C14_Witness ==
  /\ last.op \in LockupArrivals
  /\ last.hash \in SwapIds
  /\ swaps[last.hash].status = SwapExpired
  /\ swaps[last.hash].txid = 0
  /\ OnThisChain(swaps[last.hash].chainCurrency)
  /\ last.op = ListenerOf(swaps[last.hash].chainCurrency)
  /\ NoLockupInFlight
  /\ emitted = <<>>

LockedUp == {TransactionMempool, TransactionConfirmed}

C16_WritesOnlyExpectedStatus ==
  [][\A s \in Slots :
       (lockups[s].pc = "found" /\ lockups'[s].pc = "recorded") =>
         swaps[lockups[s].id].status \in {SwapCreated, InvoiceSet}
    ]_vars

\* C17 as claimed: the swaps a block notification reports with swap.expired
\* are in swap.created or invoice.set.
C17_ExpiredOnlyBeforeLockup ==
  last.op = "block" =>
    \A k \in 1..Len(emitted) :
      emitted[k].name = "swap.expired" =>
        /\ emitted[k].status \in {SwapCreated, InvoiceSet}
        /\ swaps[emitted[k].id].status \in {SwapCreated, InvoiceSet}

\* C18: an iteration of init() whose transaction lookup fails writes to no
\* reverse swap, emits nothing and attaches no watcher, and init() goes on
\* with the reverse swaps that are left, in their order.
C18_LookupFailureIsSkipped ==
  [][last'.op = "initVisit.notFound" =>
       /\ reverseSwaps' = reverseSwaps
       /\ emitted' = <<>>
       /\ watchers' = watchers
       /\ initPc' = "loop"
       /\ initQueue # <<>>
       /\ initQueue' = Tail(initQueue)
    ]_vars

\* init() has returned: the lookup failed for one reverse swap of this chain,
\* which is still in transaction.mempool without a watcher, and the one
\* visited after it has its watcher.
C18_Witness ==
  /\ last.op = "initVisit"
  /\ initPc = "done"
  /\ \E q, r \in ReverseSwapIds :
       /\ q < r
       /\ reverseSwaps[q].status = TransactionMempool
       /\ OnThisChain(reverseSwaps[q].chainCurrency)
       /\ watchers[q].pc = "none"
       /\ reverseSwaps[r].status = TransactionMempool
       /\ watchers[r].pc = "waiting"

\* C19: a lockup event that matches a swap in swap.created or invoice.set
\* whose chain currency is not the listener's (native listener: not RBTC;
\* token listener: no wallet, or a wallet that is not a token wallet) changes
\* nothing, starts no listener continuation and emits nothing.
C19_OtherChainIsNoOp ==
  [][(/\ last'.op \in LockupArrivals
      /\ last'.hash \in SwapIds
      /\ swaps[last'.hash].status \in {SwapCreated, InvoiceSet}
      /\ \/ last'.op = "eth.lockup" /\ swaps[last'.hash].chainCurrency # "RBTC"
         \/ last'.op = "erc20.lockup"
              /\ walletType(swaps[last'.hash].chainCurrency) # "ERC20") =>
       /\ emitted' = <<>>
       /\ UNCHANGED <<swaps, reverseSwaps, lockups, watchers, initPc, initQueue>>
    ]_vars

\* A token lockup event matched a swap awaiting its lockup in the native
\* asset, and was ignored.
C19_Witness ==
  /\ last.op = "erc20.lockup"
  /\ last.hash \in SwapIds
  /\ swaps[last.hash].status \in {SwapCreated, InvoiceSet}
  /\ swaps[last.hash].chainCurrency = "RBTC"
  /\ swaps[last.hash].txid = 0
  /\ NoLockupInFlight
  /\ emitted = <<>>

\* C20: the entity an event carries is the instance the handler's own update
\* returned: the swap in lockup.failed and in a contract's lockup event is in
\* transaction.mempool with the txHash of the lockup event as its lockup
\* transaction, the reverse swap in lockup.confirmed is in
\* transaction.confirmed and the one in lockup.failedToSend in
\* transaction.failed.
C20_EventsCarryUpdatedEntity ==
  \A k \in 1..Len(emitted) :
    /\ emitted[k].name \in LockupEventNames =>
         /\ last.op = "validate"
         /\ emitted[k].status = TransactionMempool
         /\ emitted[k].txid = last.txHash
         /\ emitted[k].txid # 0
    /\ emitted[k].name = "lockup.confirmed" => emitted[k].status = TransactionConfirmed
    /\ emitted[k].name = "lockup.failedToSend" => emitted[k].status = TransactionFailed

\* lockup.failed was emitted with the swap in transaction.mempool while the
\* row has moved on, and a reverse swap's lockup has been confirmed.
C20_Witness ==
  /\ last.op = "validate"
  /\ Len(emitted) = 1
  /\ emitted[1].name = "lockup.failed"
  /\ emitted[1].status = TransactionMempool
  /\ emitted[1].txid = last.txHash
  /\ swaps[emitted[1].id].status = TransactionConfirmed
  /\ \E r \in ReverseSwapIds : reverseSwaps[r].status = TransactionConfirmed

\* The checks before the amount check pass.
AmountDecides(f) == Failing(f) \subseteq {"INSUFFICIENT_AMOUNT"}

\* C21: for a lockup that passes the checks before the amount check: with an
\* expectedAmount set, an amount below expectedAmount in chain units is
\* rejected with INSUFFICIENT_AMOUNT, the event carrying the swap in
\* transaction.mempool and the lockup being recorded on the row, and an
\* amount equal to or above it is accepted; with no expectedAmount any amount
\* is accepted.  No lockup is rejected with INSUFFICIENT_AMOUNT otherwise.
C21_AmountInChainUnits ==
  last.op = "validate" =>
    LET f == last.frame
        scaled == expectedAmountOf(f.id) * NativeUnits(f)
    IN /\ Len(emitted) = 1
       /\ AmountDecides(f) =>
            IF expectedAmountOf(f.id) # 0 /\ f.amount < scaled
            THEN /\ emitted[1].name = "lockup.failed"
                 /\ emitted[1].reason = "INSUFFICIENT_AMOUNT"
                 /\ emitted[1].status = TransactionMempool
                 /\ swaps[f.id].txid = f.txHash
            ELSE emitted[1].name = VariantLockup(f)
       /\ emitted[1].reason = "INSUFFICIENT_AMOUNT" =>
            expectedAmountOf(f.id) # 0 /\ f.amount < scaled

\* A native lockup one chain unit short of the expected amount was rejected
\* for its amount.
C21_Witness ==
  /\ last.op = "validate"
  /\ last.frame.variant = "eth"
  /\ last.frame.amount = expectedAmountOf(last.frame.id) * etherDecimals - 1
  /\ Len(emitted) = 1
  /\ emitted[1].reason = "INSUFFICIENT_AMOUNT"
  /\ emitted[1].status = TransactionMempool

\* C22: the refund of a reverse swap whose lockup was recorded with a fee
\* leaves the row in transaction.refunded with the given failure reason and
\* with the lockup fee plus the refund fee as its minerFee, the lockup
\* transaction staying recorded.
C22_MinerFeeAccumulates ==
  [][\A r \in ReverseSwapIds :
       (/\ last'.op = "reverseSwapExpired"
        /\ last'.hash = r
        /\ reverseSwaps[r].txid # 0) =>
         /\ reverseSwaps[r].minerFee \in LockupFees
         /\ \E fee \in RefundFees :
              reverseSwaps'[r].minerFee = reverseSwaps[r].minerFee + fee
         /\ reverseSwaps'[r].status = TransactionRefunded
         /\ reverseSwaps'[r].failureReason = "refunded"
         /\ reverseSwaps'[r].txid = reverseSwaps[r].txid
    ]_vars

\* A reverse swap whose lockup the service sent and that was then refunded
\* holds the sum of the two fees.
C22_Witness ==
  /\ last.op = "reverseSwapExpired"
  /\ reverseSwaps[last.hash].status = TransactionRefunded
  /\ reverseSwaps[last.hash].txid = last.hash
  /\ \E f1 \in LockupFees, f2 \in RefundFees : reverseSwaps[last.hash].minerFee = f1 + f2
  /\ reverseSwaps[last.hash].failureReason = "refunded"

\* C23 as claimed: an attachment that has emitted lockup.confirmed does not
\* emit lockup.failedToSend, and no watcher writes transaction.failed with
\* the instance it has written transaction.confirmed with.
C23_OneOutcomePerWatcher ==
  [][\A r \in ReverseSwapIds :
       /\ \A k \in 1..Len(emitted') :
            (emitted'[k].name = "lockup.failedToSend" /\ emitted'[k].id = r) =>
              "lockup.confirmed" \notin watchers[r].sent
       /\ ~(/\ watchers[r].inst.status = TransactionConfirmed
            /\ watchers'[r].inst.status = TransactionFailed)
    ]_vars

\* C24 as claimed: a lockup listener records the lockup of a swap only when
\* none is recorded for it yet, and the validation steps of two listeners do
\* not emit a lockup event for the same swap one after the other.
C24_RecordedAndReportedOnce ==
  [][/\ \A s \in Slots :
          (lockups[s].pc = "found" /\ lockups'[s].pc = "recorded") =>
            /\ swaps[lockups[s].id].txid = 0
            /\ swaps[lockups[s].id].status # TransactionMempool
     /\ ~(/\ last.op = "validate" /\ emitted # <<>>
          /\ last'.op = "validate" /\ emitted' # <<>>
          /\ emitted'[1].id = emitted[1].id)
    ]_vars

\* C25: the step that handles a claim event or a block notification leaves
\* every row of both tables as it is, and starts or ends no handler, watcher
\* or init() step.
C25_ClaimAndScansOnlyRead ==
  [][last'.op \in ClaimArrivals \cup {"block"} =>
       UNCHANGED <<swaps, reverseSwaps, lockups, watchers, initPc, initQueue>>
    ]_vars

\* A claim was reported for a reverse swap whose lockup is still in the
\* mempool; the row is as it was, without a preimage.
C25_Witness ==
  /\ last.op \in ClaimArrivals
  /\ Len(emitted) = 1
  /\ emitted[1].name = "claim"
  /\ reverseSwaps[emitted[1].id].status = TransactionMempool
  /\ reverseSwaps[emitted[1].id].preimage = 0

\* C26: of two block notifications handled one after the other, the second
\* reports again, with the same status, every swap and every reverse swap the
\* first reported whose timeoutBlockHeight its height has reached.
C26_ExpiryIsReportedAgain ==
  [][(last.op = "block" /\ last'.op = "block") =>
       \A k \in 1..Len(emitted) :
         timeoutOf(emitted[k].id) <= last'.height =>
           \E j \in 1..Len(emitted') :
             /\ emitted'[j].name = emitted[k].name
             /\ emitted'[j].id = emitted[k].id
             /\ emitted'[j].status = emitted[k].status
    ]_vars

\* A block past the timeoutBlockHeight of a swap and of a reverse swap
\* reported both.
C26_Witness ==
  /\ last.op = "block"
  /\ \E i \in SwapIds, r \in ReverseSwapIds :
       /\ timeoutOf(i) < last.height
       /\ timeoutOf(r) < last.height
       /\ EmittedFor("swap.expired", i) # {}
       /\ EmittedFor("reverseSwap.expired", r) # {}

====
